---- MODULE Spec2Model ----
(***************************************************************************)
(* GoMun: the alphabetical agenda of apps/web/src/App.tsx (letter keys,    *)
(* grouping, collation-ordered sorting, per-letter pagination, search) and *)
(* the entry list and page map the App component keeps.                    *)
(*                                                                         *)
(* A JavaScript string is a sequence of one-character atoms; characters    *)
(* outside ASCII are named atoms ("e-acute").  null and undefined are the  *)
(* one-element sequences Null and Undefined, which are no strings of the   *)
(* alphabet.                                                               *)
(***************************************************************************)
EXTENDS Integers, Sequences, FiniteSets, TLC

VARIABLES
  arg,            \* letterKey called on its own: the argument
  ret,            \* letterKey called on its own: the value returned
  entries,        \* App: useState<AgendaEntry[]>
  pageByLetter,   \* App: useState<Record<string, number>>
  activeView,     \* App: useState<'agenda' | 'search'>
  query,          \* SearchView: useState('')
  effectPending,  \* the effect on [entries] is scheduled and has not run
  sortCallOrder,  \* the order in which the engine's sort calls a comparator
  loading,        \* App: useState(true)
  error,          \* App: useState<string | null>, as error !== null
  nextId,         \* the identifier the store assigns to the next created entry
  lastStep,       \* history: the handler or effect that ran last
  store,          \* API: the rows of prisma.entry, in the order of creation
  inFlight,       \* the requests and responses between the App and the API
  ui,             \* App: isFormOpen, editingEntryId, submitting, deletingIds
  history         \* history: what the App has requested and been answered

vars ==
  <<arg, ret, entries, pageByLetter, activeView, query, effectPending,
    sortCallOrder, loading, error, nextId, lastStep, store, inFlight, ui,
    history>>

apiVars == <<store, inFlight, ui, history>>

-----------------------------------------------------------------------------
(* Bounds *)

MaxTitleLen == 3
MaxShortList == 2
MaxLongList == 12
MaxPageInput == 4
MaxId == 7
MaxRows == 2
MaxCreated == 1

-----------------------------------------------------------------------------
(* JavaScript values and string primitives *)

Null == <<"null">>
Undefined == <<"undefined">>
EmptyString == <<>>

IsNullish(v) == v \in {Null, Undefined}

LowerAlphabet ==
  <<"a", "b", "c", "d", "e", "f", "g", "h", "i", "j", "k", "l", "m",
    "n", "o", "p", "q", "r", "s", "t", "u", "v", "w", "x", "y", "z">>

UpperAlphabet ==
  <<"A", "B", "C", "D", "E", "F", "G", "H", "I", "J", "K", "L", "M",
    "N", "O", "P", "Q", "R", "S", "T", "U", "V", "W", "X", "Y", "Z">>

LatinLower == {LowerAlphabet[i] : i \in DOMAIN LowerAlphabet}
LatinUpper == {UpperAlphabet[i] : i \in DOMAIN UpperAlphabet}

IndexOf(alphabet, c) == CHOOSE i \in DOMAIN alphabet : alphabet[i] = c

WhiteSpace == {" "}

Digits == <<"0", "1", "2", "3", "4">>

\* The characters of the model's strings.
Chars ==
  LatinLower \cup LatinUpper \cup {Digits[i] : i \in DOMAIN Digits}
    \cup {" ", ",", "#", "e-acute", "E-acute", "sharp-s"}

\* String.prototype.toUpperCase on one character: a sequence, since the
\* upper case of one character may be two ("sharp-s" gives "SS").
UpperTable ==
  [c \in Chars |->
     CASE c \in LatinLower -> <<UpperAlphabet[IndexOf(LowerAlphabet, c)]>>
       [] c = "e-acute" -> <<"E-acute">>
       [] c = "sharp-s" -> <<"S", "S">>
       [] OTHER -> <<c>>]

UpperChar(c) == UpperTable[c]

\* String.prototype.toLowerCase on one character.
LowerTable ==
  [c \in Chars |->
     CASE c \in LatinUpper -> LowerAlphabet[IndexOf(UpperAlphabet, c)]
       [] c = "E-acute" -> "e-acute"
       [] OTHER -> c]

LowerChar(c) == LowerTable[c]

RECURSIVE toUpperCase(_)
toUpperCase(s) ==
  IF s = <<>> THEN <<>> ELSE UpperChar(Head(s)) \o toUpperCase(Tail(s))

toLowerCase(s) == [i \in 1..Len(s) |-> LowerChar(s[i])]

RECURSIVE trimStart(_)
trimStart(s) ==
  IF s # <<>> /\ Head(s) \in WhiteSpace THEN trimStart(Tail(s)) ELSE s

RECURSIVE trimEnd(_)
trimEnd(s) ==
  IF s # <<>> /\ s[Len(s)] \in WhiteSpace
    THEN trimEnd(SubSeq(s, 1, Len(s) - 1))
    ELSE s

trim(s) == trimEnd(trimStart(s))

\* charAt(0): the empty string when the string is empty.
charAt0(s) == IF s = <<>> THEN <<>> ELSE <<s[1]>>

-----------------------------------------------------------------------------
(* Letter keys *)

CatchAll == <<"#">>
TypeError == <<"TypeError">>

isLatinLetter(char) == Len(char) = 1 /\ char[1] \in LatinUpper

\* The variant without the optional chaining: title.trim() on null throws.
letterKeyUnguarded(title) ==
  IF IsNullish(title)
    THEN TypeError
    ELSE LET initial == toUpperCase(charAt0(trim(title)))
         IN  IF isLatinLetter(initial) THEN initial ELSE CatchAll

\* title?.trim().charAt(0).toUpperCase() ?? ''
letterKey(title) ==
  LET initial == IF IsNullish(title)
                   THEN EmptyString
                   ELSE toUpperCase(charAt0(trim(title)))
  IN  IF isLatinLetter(initial) THEN initial ELSE CatchAll

-----------------------------------------------------------------------------
(* Date formatting *)

\* The strings new Date(value) parses to a valid time.
ValidDateStrings == {<<"2", "0", "2", "4">>}

\* toLocaleDateString(undefined, {year, month: 'short', day}) of a valid date.
toLocaleDateString(value) ==
  CASE value = <<"2", "0", "2", "4">> ->
         <<"J", "a", "n", " ", "1", ",", " ", "2", "0", "2", "4">>

formatDate(value) ==
  IF IsNullish(value) \/ value = EmptyString
    THEN EmptyString
    ELSE IF value \notin ValidDateStrings
           THEN EmptyString
           ELSE toLocaleDateString(value)

-----------------------------------------------------------------------------
(* Intl collation: localeCompare(that, undefined, {sensitivity: 'base'}) *)

\* The primary weights of one character in the root collation: white space
\* and punctuation sort before digits, digits before letters; case and
\* accents carry no primary weight.
PrimaryWeightTable ==
  [c \in Chars |->
     CASE c = " " -> <<1>>
       [] c = "," -> <<2>>
       [] c = "#" -> <<3>>
       [] c \in {Digits[i] : i \in DOMAIN Digits} -> <<10 + IndexOf(Digits, c)>>
       [] c \in LatinLower -> <<20 + IndexOf(LowerAlphabet, c)>>
       [] c \in LatinUpper -> <<20 + IndexOf(UpperAlphabet, c)>>
       [] c \in {"e-acute", "E-acute"} -> <<20 + IndexOf(LowerAlphabet, "e")>>
       [] c = "sharp-s" -> <<20 + IndexOf(LowerAlphabet, "s"),
                             20 + IndexOf(LowerAlphabet, "s")>>]

PrimaryWeights(c) == PrimaryWeightTable[c]

RECURSIVE CollationKey(_)
CollationKey(s) ==
  IF s = <<>> THEN <<>> ELSE PrimaryWeights(Head(s)) \o CollationKey(Tail(s))

RECURSIVE CompareKeys(_, _)
CompareKeys(k1, k2) ==
  CASE k1 = <<>> /\ k2 = <<>> -> 0
    [] k1 = <<>> /\ k2 # <<>> -> -1
    [] k1 # <<>> /\ k2 = <<>> -> 1
    [] OTHER -> IF Head(k1) < Head(k2) THEN -1
                ELSE IF Head(k1) > Head(k2) THEN 1
                ELSE CompareKeys(Tail(k1), Tail(k2))

\* JsToString of the argument of localeCompare.
JsToString(v) ==
  CASE v = Null -> <<"n", "u", "l", "l">>
    [] v = Undefined -> <<"u", "n", "d", "e", "f", "i", "n", "e", "d">>
    [] OTHER -> v

\* The weights of a comparison by code units: capitals before small letters.
CodeUnitTable ==
  [c \in Chars |->
     CASE c \in LatinUpper -> <<50 + IndexOf(UpperAlphabet, c)>>
       [] c \in LatinLower -> <<100 + IndexOf(LowerAlphabet, c)>>
       [] c \in {"e-acute", "E-acute", "sharp-s"} -> <<200>>
       [] OTHER -> PrimaryWeightTable[c]]

RECURSIVE CodeUnitKey(_)
CodeUnitKey(s) ==
  IF s = <<>> THEN <<>> ELSE CodeUnitTable[Head(s)] \o CodeUnitKey(Tail(s))

\* A comparison by code units, as a.localeCompare(b) would not do.
localeCompareCaseSensitive(this, that) ==
  CompareKeys(CodeUnitKey(this), CodeUnitKey(JsToString(that)))

\* this.localeCompare(that, undefined, { sensitivity: 'base' }), this a string.
localeCompare(this, that) ==
  CompareKeys(CollationKey(this), CollationKey(JsToString(that)))

-----------------------------------------------------------------------------
(* Array.prototype.sort *)

\* The outcome of a computation that may throw.
Returned(v) == [threw |-> FALSE, value |-> v]
Threw == [threw |-> TRUE, value |-> <<>>]

\* The comparator of the sections' entries:
\*   first.title.localeCompare(second.title, undefined, {sensitivity: 'base'})
\* A null or undefined first.title has no localeCompare: TypeError.
compareTitlesThrows(first, second) == IsNullish(first.title)
compareTitles(first, second) == localeCompare(first.title, second.title)

\* The comparator of the sections: a.localeCompare(b, ...) over the keys.
compareLetters(a, b) == localeCompare(a, b)

\* Array.prototype.sort is stable; the order in which it hands pairs to the
\* comparator is the engine's.  An insertion sort, each element compared with
\* those before it from the right; callOrder says whether the engine calls
\* comparefn(later, earlier) ("pivot-first") or comparefn(earlier, later).
CallOrders == {"pivot-first", "pivot-second"}

RECURSIVE insertEntry(_, _, _, _)
insertEntry(sorted, x, j, callOrder) ==
  IF j = 0
    THEN Returned(<<x>> \o sorted)
    ELSE LET first == IF callOrder = "pivot-first" THEN x ELSE sorted[j]
             second == IF callOrder = "pivot-first" THEN sorted[j] ELSE x
         IN  IF compareTitlesThrows(first, second)
               THEN Threw
               ELSE LET c == compareTitles(first, second)
                        before == IF callOrder = "pivot-first" THEN c < 0 ELSE c > 0
                    IN  IF before
                          THEN insertEntry(sorted, x, j - 1, callOrder)
                          ELSE Returned(SubSeq(sorted, 1, j) \o <<x>>
                                          \o SubSeq(sorted, j + 1, Len(sorted)))

RECURSIVE sortFrom(_, _, _, _)
sortFrom(sorted, items, i, callOrder) ==
  IF i > Len(items)
    THEN Returned(sorted)
    ELSE LET r == insertEntry(sorted, items[i], Len(sorted), callOrder)
         IN  IF r.threw THEN Threw ELSE sortFrom(r.value, items, i + 1, callOrder)

\* [...items].sort((first, second) => first.title.localeCompare(second.title, ...))
sortByTitle(items, callOrder) == sortFrom(<<>>, items, 1, callOrder)

RECURSIVE insertLetter(_, _, _)
insertLetter(sorted, a, j) ==
  IF j = 0
    THEN <<a>> \o sorted
    ELSE IF compareLetters(a, sorted[j]) < 0
           THEN insertLetter(sorted, a, j - 1)
           ELSE SubSeq(sorted, 1, j) \o <<a>> \o SubSeq(sorted, j + 1, Len(sorted))

RECURSIVE sortLetters(_)
sortLetters(keys) ==
  IF keys = <<>>
    THEN <<>>
    ELSE LET rest == sortLetters(SubSeq(keys, 1, Len(keys) - 1))
         IN  insertLetter(rest, keys[Len(keys)], Len(rest))

-----------------------------------------------------------------------------
(* Grouping and pagination: groupedSections *)

ITEMS_PER_PAGE == 5

Max(a, b) == IF a >= b THEN a ELSE b
Min(a, b) == IF a <= b THEN a ELSE b

\* Math.ceil(count / size) for count >= 0.
ceilDiv(count, size) == (count + size - 1) \div size

NoPages == [k \in {} |-> 1]

\* pageByLetter[letter] ?? 1
storedPageOr1(pages, letter) ==
  IF letter \in DOMAIN pages THEN pages[letter] ELSE 1

\* The keys of the Map the grouping loop builds, in insertion order.
RECURSIVE bucketKeys(_)
bucketKeys(list) ==
  IF list = <<>>
    THEN <<>>
    ELSE LET rest == bucketKeys(SubSeq(list, 1, Len(list) - 1))
             key == letterKey(list[Len(list)].title)
         IN  IF \E i \in DOMAIN rest : rest[i] = key THEN rest ELSE Append(rest, key)

\* The bucket of a key without the entry that created it.
bucketItemsFirstDropped(list, key) ==
  Tail(SelectSeq(list, LAMBDA e : letterKey(e.title) = key))

\* bucket.get(key): the entries of the key, in list order.
bucketItems(list, key) == SelectSeq(list, LAMBDA e : letterKey(e.title) = key)

\* Array.from(bucket.entries()) left in insertion order: the sort forgotten.
sectionLettersUnsorted(list) == bucketKeys(list)

\* Array.from(bucket.entries()).sort(([a], [b]) => a.localeCompare(b, ...))
sectionLetters(list) == sortLetters(bucketKeys(list))

\* Math.max(1, Math.ceil(count / ITEMS_PER_PAGE))
totalPagesOf(count) == Max(1, ceilDiv(count, ITEMS_PER_PAGE))

\* The clamp without its upper bound.
clampPageNoCeiling(stored, totalPages) == Max(stored, 1)

\* Math.min(Math.max(stored, 1), totalPages)
clampPage(stored, totalPages) == Min(Max(stored, 1), totalPages)

\* orderedItems.slice(startIndex, startIndex + ITEMS_PER_PAGE)
slicePage(orderedItems, currentPage) ==
  LET startIndex == (currentPage - 1) * ITEMS_PER_PAGE
  IN  SubSeq(orderedItems, startIndex + 1,
             Min(startIndex + ITEMS_PER_PAGE, Len(orderedItems)))

\* One element of the .map(([letter, items]) => ...) of groupedSections.
agendaSection(letter, orderedItems, pages) ==
  LET totalPages == totalPagesOf(Len(orderedItems))
      currentPage == clampPage(storedPageOr1(pages, letter), totalPages)
  IN  [letter |-> letter,
       visible |-> slicePage(orderedItems, currentPage),
       totalPages |-> totalPages,
       currentPage |-> currentPage]

\* A search section cut to its first page, as an agenda section is.
searchSectionPaged(letter, orderedItems) ==
  [letter |-> letter, visible |-> slicePage(orderedItems, 1),
   totalPages |-> 1, currentPage |-> 1]

\* One element of the .map of SearchView's sections.
searchSection(letter, orderedItems) ==
  [letter |-> letter, visible |-> orderedItems, totalPages |-> 1, currentPage |-> 1]

\* The sorted entries of every section, or the TypeError of a comparator.
orderedBuckets(list, callOrder) ==
  LET letters == sectionLetters(list)
      sorted == [i \in DOMAIN letters |->
                   sortByTitle(bucketItems(list, letters[i]), callOrder)]
  IN  IF \E i \in DOMAIN letters : sorted[i].threw
        THEN Threw
        ELSE Returned([i \in DOMAIN letters |->
                         [letter |-> letters[i], items |-> sorted[i].value]])

groupedSections(list, pages, callOrder) ==
  LET buckets == orderedBuckets(list, callOrder)
  IN  IF buckets.threw
        THEN Threw
        ELSE Returned([i \in DOMAIN buckets.value |->
                         agendaSection(buckets.value[i].letter,
                                       buckets.value[i].items, pages)])

-----------------------------------------------------------------------------
(* Page reconciliation: the effect on [entries] *)

\* totals: the number of entries of each key.
totalsOf(list) ==
  LET keys == {letterKey(list[i].title) : i \in DOMAIN list}
  IN  [key \in keys |-> Cardinality({i \in DOMAIN list : letterKey(list[i].title) = key})]

\* The updater with Math.min forgotten.
reconcilePagesNoCeiling(list, prev) ==
  LET totals == totalsOf(list)
  IN  [key \in DOMAIN totals |-> Max(storedPageOr1(prev, key), 1)]

\* The updater handed to setPageByLetter: next (prev when nothing changed,
\* which is the same value).
reconcilePages(list, prev) ==
  LET totals == totalsOf(list)
  IN  [key \in DOMAIN totals |->
         clampPage(storedPageOr1(prev, key), totalPagesOf(totals[key]))]

-----------------------------------------------------------------------------
(* Search: SearchView *)

RECURSIVE join(_, _)
join(parts, separator) ==
  IF parts = <<>>
    THEN <<>>
    ELSE IF Len(parts) = 1
           THEN (IF IsNullish(parts[1]) THEN <<>> ELSE parts[1])
           ELSE (IF IsNullish(parts[1]) THEN <<>> ELSE parts[1])
                  \o separator \o join(Tail(parts), separator)

\* String.prototype.includes
includes(haystack, needle) ==
  \E i \in 0..(Len(haystack) - Len(needle)) :
    SubSeq(haystack, i + 1, i + Len(needle)) = needle

\* entry.note ?? ''
orEmpty(v) == IF IsNullish(v) THEN EmptyString ELSE v

\* A haystack of the title alone.
haystackTitleOnly(entry) == toLowerCase(orEmpty(entry.title))

haystackOf(entry) ==
  toLowerCase(join(<<entry.title, orEmpty(entry.note), orEmpty(entry.userId),
                     formatDate(entry.date), formatDate(entry.createdAt)>>,
                   <<" ">>))

normalizeQuery(q) == toLowerCase(trim(q))

filtered(list, q) ==
  LET normalizedQuery == normalizeQuery(q)
  IN  IF normalizedQuery = EmptyString
        THEN list
        ELSE SelectSeq(list, LAMBDA entry : includes(haystackOf(entry), normalizedQuery))

searchSections(list, q, callOrder) ==
  LET buckets == orderedBuckets(filtered(list, q), callOrder)
  IN  IF buckets.threw
        THEN Threw
        ELSE Returned([i \in DOMAIN buckets.value |->
                         searchSection(buckets.value[i].letter, buckets.value[i].items)])

-----------------------------------------------------------------------------
(* Letter-key derivation over every title value *)

\* The form closed, nothing being submitted or deleted.
\* editingEntryId of no entry: null in the App, 0 here, the identifiers of
\* the store being 1, 2, ...
NoEntryId == 0

IdleUi ==
  [isFormOpen |-> FALSE, editingEntryId |-> NoEntryId, submitting |-> FALSE,
   deletingIds |-> {}]

\* Before any request: no mutation has succeeded, no request has failed.
NoHistory == [unfollowed |-> FALSE, failed |-> FALSE]

KeyChars == {"a", "z", "A", "Z", "e-acute", "sharp-s", " "}

StringsOver(chars, n) == UNION {[1..k -> chars] : k \in 0..n}

TitleValues == StringsOver(KeyChars, MaxTitleLen) \cup {Null, Undefined}

NotCalled == <<"not called">>

appVars ==
  <<entries, pageByLetter, activeView, query, effectPending, sortCallOrder,
    loading, error, nextId, lastStep, store, inFlight, ui, history>>

Step(op) == [op |-> op]

InitKey ==
  /\ arg \in TitleValues
  /\ ret = NotCalled
  /\ entries = <<>>
  /\ pageByLetter = NoPages
  /\ activeView = "agenda"
  /\ query = EmptyString
  /\ effectPending = FALSE
  /\ sortCallOrder = "pivot-first"
  /\ loading = FALSE
  /\ error = FALSE
  /\ nextId = 1
  /\ lastStep = Step("mount")
  /\ store = <<>>
  /\ inFlight = {}
  /\ ui = IdleUi
  /\ history = NoHistory

CallLetterKey ==
  /\ arg # NotCalled
  /\ ret = NotCalled
  /\ ret' = letterKey(arg)
  /\ UNCHANGED <<arg, appVars>>

NextKey == CallLetterKey

SpecKey == InitKey /\ [][NextKey]_vars

\* The Latin capital a character folds to, if any.
LatinCapitalOf(c) ==
  CASE c \in {"a", "A"} -> <<"A">>
    [] c \in {"z", "Z"} -> <<"Z">>
    [] OTHER -> CatchAll

\* The first character left after the surrounding white space is dropped.
FirstInk(s) ==
  IF \E i \in 1..Len(s) : s[i] \notin WhiteSpace
    THEN <<s[CHOOSE i \in 1..Len(s) :
               /\ s[i] \notin WhiteSpace
               /\ \A j \in 1..(i - 1) : s[j] \in WhiteSpace]>>
    ELSE <<>>

\* C1: letterKey returns, for every title value (string, empty, blank, null,
\* undefined), the capital A-Z that the first character of the trimmed title
\* upper-cases to, and the catch-all key '#' in every other case; it never
\* throws.
C1_LetterKeyTotal ==
  ret # NotCalled =>
    /\ ret # TypeError
    /\ ret \in {<<l>> : l \in LatinUpper} \cup {CatchAll}
    /\ ret = IF IsNullish(arg) \/ FirstInk(arg) = <<>>
               THEN CatchAll
               ELSE LatinCapitalOf(FirstInk(arg)[1])
    /\ (arg = <<"a">> => ret = <<"A">>)
    /\ (arg = <<"Z", "e-acute">> => ret = <<"Z">>)
    /\ (arg \in {<<"e-acute">>, EmptyString, Null} => ret = CatchAll)

C1_Witness ==
  /\ ret = CatchAll
  /\ arg = Null

-----------------------------------------------------------------------------
(* The App's handlers and effects on the page map, the view and the query *)

\* A render of App throws when a comparator of groupedSections throws (and
\* one of SearchView when its sections throw): React then unmounts the tree,
\* and no handler or effect runs any more.
Mounted ==
  IF \A i \in DOMAIN entries : ~IsNullish(entries[i].title)
    THEN TRUE   \* no comparator can throw
    ELSE /\ ~groupedSections(entries, pageByLetter, sortCallOrder).threw
         /\ activeView = "search" => ~searchSections(entries, query, sortCallOrder).threw

\* setPageByLetter((prev) => ({ ...prev, [letter]: page }))
withPage(prev, letter, page) ==
  [k \in DOMAIN prev \cup {letter} |-> IF k = letter THEN page ELSE prev[k]]

\* handlePageChange
handlePageChange(letter, page) ==
  /\ pageByLetter' = withPage(pageByLetter, letter, page)
  /\ lastStep' = Step("page")
  /\ UNCHANGED <<arg, ret, entries, activeView, query, effectPending,
                 sortCallOrder, loading, error, nextId>>
  /\ UNCHANGED apiVars

\* The effect on [entries], run after the render that follows a change of
\* entries and before any other event is handled.
RunEffect ==
  /\ effectPending
  /\ Mounted
  /\ pageByLetter' = reconcilePages(entries, pageByLetter)
  /\ effectPending' = FALSE
  /\ lastStep' = Step(IF \E k \in DOMAIN pageByLetter \cap DOMAIN totalsOf(entries) :
                          reconcilePages(entries, pageByLetter)[k] # pageByLetter[k]
                        THEN "effect clamped" ELSE "effect")
  /\ UNCHANGED <<arg, ret, entries, activeView, query, sortCallOrder,
                 loading, error, nextId>>
  /\ UNCHANGED apiVars

\* The nav buttons: setActiveView.  SearchView is unmounted in the agenda
\* view, and its query state starts again at '' when it is mounted.
SetActiveView(view) ==
  /\ ~effectPending
  /\ Mounted
  /\ activeView # view
  /\ activeView' = view
  /\ query' = EmptyString
  /\ lastStep' = Step("view")
  /\ UNCHANGED <<arg, ret, entries, pageByLetter, effectPending, sortCallOrder,
                 loading, error, nextId>>
  /\ UNCHANGED apiVars

\* The search input: setQuery(event.target.value)
SetQuery(q) ==
  /\ ~effectPending
  /\ Mounted
  /\ activeView = "search"
  /\ query # q
  /\ query' = q
  /\ lastStep' = Step("query")
  /\ UNCHANGED <<arg, ret, entries, pageByLetter, activeView, effectPending,
                 sortCallOrder, loading, error, nextId>>
  /\ UNCHANGED apiVars

-----------------------------------------------------------------------------
(* The engine over a fetched list: any list, any page request, any query *)

CreatedAt == <<"2", "0", "2", "4">>

Entry(id, title, note, userId, date) ==
  [id |-> id, title |-> title, note |-> note, userId |-> userId,
   date |-> date, createdAt |-> CreatedAt]

\* Entries as the API stores them: trimmed, non-blank titles.
Shapes ==
  <<[title |-> <<"a", "b">>, note |-> Null, userId |-> <<"z">>, date |-> CreatedAt],
    [title |-> <<"A", "b">>, note |-> <<"L">>, userId |-> <<"z">>, date |-> Null],
    [title |-> <<"b">>, note |-> <<"a", "l">>, userId |-> <<"z">>, date |-> Null],
    [title |-> <<"e-acute">>, note |-> Null, userId |-> <<"z">>, date |-> Null]>>

\* Entries of the letter A, for the sections of several pages.
LongShapes ==
  <<[title |-> <<"a", "b">>, note |-> Null, userId |-> <<"z">>, date |-> Null],
    [title |-> <<"A", "b">>, note |-> <<"L">>, userId |-> <<"z">>, date |-> Null],
    [title |-> <<"a">>, note |-> Null, userId |-> <<"z">>, date |-> CreatedAt]>>

\* Entries with missing or blank titles and malformed dates.
DegenerateShapes ==
  <<[title |-> Null, note |-> Null, userId |-> Null, date |-> Null],
    [title |-> Undefined, note |-> Undefined, userId |-> <<"z">>, date |-> <<"x">>],
    [title |-> <<" ">>, note |-> <<"L">>, userId |-> <<"z">>, date |-> EmptyString],
    [title |-> <<"a">>, note |-> Null, userId |-> <<"z">>, date |-> <<"x">>],
    [title |-> <<"1">>, note |-> Null, userId |-> <<"z">>, date |-> CreatedAt]>>

ListOfShapes(shapes, picks) ==
  [i \in DOMAIN picks |->
     Entry(i, shapes[picks[i]].title, shapes[picks[i]].note,
           shapes[picks[i]].userId, shapes[picks[i]].date)]

ShortLists(shapes) ==
  {ListOfShapes(shapes, picks) :
     picks \in UNION {[1..n -> DOMAIN shapes] : n \in 0..MaxShortList}}

\* Lists of one letter long enough for several pages.
LongLists ==
  {ListOfShapes(LongShapes, [i \in 1..n |-> 1 + (i % 3)]) :
     n \in (MaxShortList + 1)..MaxLongList}

Queries == {EmptyString, <<" ", "L">>, <<"b", " ", "a">>, <<"z", "z">>}

InitEngine ==
  /\ arg = NotCalled
  /\ ret = NotCalled
  /\ entries \in ShortLists(Shapes) \cup LongLists
  /\ pageByLetter = NoPages
  /\ activeView = "agenda"
  /\ query = EmptyString
  /\ effectPending = TRUE
  /\ sortCallOrder = "pivot-first"
  /\ loading = FALSE
  /\ error = FALSE
  /\ nextId = 1
  /\ lastStep = Step("load")
  /\ store = <<>>
  /\ inFlight = {}
  /\ ui = IdleUi
  /\ history = NoHistory

\* A page of a section is requested: any page number.
RequestPage ==
  /\ ~effectPending
  /\ Mounted
  /\ activeView = "agenda"
  /\ \E letter \in DOMAIN totalsOf(entries), page \in 0..MaxPageInput :
       handlePageChange(letter, page)

NextEngine ==
  \/ RunEffect
  \/ RequestPage
  \/ \E view \in {"agenda", "search"} : SetActiveView(view)
  \/ \E q \in Queries : SetQuery(q)

SpecEngine == InitEngine /\ [][NextEngine]_vars

InitTotal ==
  /\ arg = NotCalled
  /\ ret = NotCalled
  /\ entries \in ShortLists(DegenerateShapes)
  /\ pageByLetter = NoPages
  /\ activeView = "agenda"
  /\ query = EmptyString
  /\ effectPending = TRUE
  /\ sortCallOrder \in CallOrders
  /\ loading = FALSE
  /\ error = FALSE
  /\ nextId = 1
  /\ lastStep = Step("load")
  /\ store = <<>>
  /\ inFlight = {}
  /\ ui = IdleUi
  /\ history = NoHistory

SpecTotal == InitTotal /\ [][NextEngine]_vars

-----------------------------------------------------------------------------
(* The App: the entry list and the page map under the handlers *)

\* What the user types into the title field of the form.
TypedTitles == {<<"a">>, <<" ", "a", "b">>, <<"b", " ">>, <<" ">>}

\* The same without the second title of the letter A.
TwoTypedTitles == {<<"a">>, <<"b", " ">>, <<" ">>}

\* The entry the API answers a create or an update with: title.trim().
SavedEntry(id, title) == Entry(id, trim(title), Null, <<"z">>, Null)

Init ==
  /\ arg = NotCalled
  /\ ret = NotCalled
  /\ entries = <<>>
  /\ pageByLetter = NoPages
  /\ activeView = "agenda"
  /\ query = EmptyString
  /\ effectPending = FALSE
  /\ sortCallOrder = "pivot-first"
  /\ loading = TRUE
  /\ error = FALSE
  /\ nextId = 1
  /\ lastStep = Step("mount")
  /\ store = <<>>
  /\ inFlight = {}
  /\ ui = IdleUi
  /\ history = NoHistory

\* loadEntries, after the await: setEntries(data); setLoading(false).  The
\* store held nothing when the App was mounted, and the list was read when
\* the newest behind of the entries created since were not yet stored.
LoadEntriesOk(behind) ==
  /\ loading
  /\ ~effectPending
  /\ entries' = SubSeq(entries, behind + 1, Len(entries))
  /\ loading' = FALSE
  /\ effectPending' = TRUE
  /\ lastStep' = Step("load")
  /\ UNCHANGED <<arg, ret, pageByLetter, activeView, query, sortCallOrder, error, nextId>>
  /\ UNCHANGED apiVars

\* loadEntries, the catch: setError(message); setLoading(false)
LoadEntriesFailed ==
  /\ loading
  /\ ~effectPending
  /\ error' = TRUE
  /\ loading' = FALSE
  /\ lastStep' = Step("load failed")
  /\ UNCHANGED <<arg, ret, entries, pageByLetter, activeView, query, effectPending,
                 sortCallOrder, nextId>>
  /\ UNCHANGED apiVars

\* The page map set to the one key, the spread of prev forgotten.
createdPagesOnlyKey(prev, saved) == [k \in {letterKey(saved.title)} |-> 1]

\* setPageByLetter((prev) => ({ ...prev, [letterKey(saved.title)]: 1 }))
createdPages(prev, saved) == withPage(prev, letterKey(saved.title), 1)

\* handleSubmitEntry of a new entry, after the await of a 201: the title typed
\* is not blank after trim(), the store has assigned the identifier.
CreateSaved(typed) ==
  /\ ~effectPending
  /\ nextId <= MaxId
  /\ trim(typed) # EmptyString
  /\ LET saved == SavedEntry(nextId, trim(typed))
     IN  /\ entries' = <<saved>> \o entries
         /\ pageByLetter' = createdPages(pageByLetter, saved)
         /\ lastStep' = Step("create")
  /\ effectPending' = TRUE
  /\ nextId' = nextId + 1
  /\ UNCHANGED <<arg, ret, activeView, query, sortCallOrder, loading, error>>
  /\ UNCHANGED apiVars

\* The entry cards are rendered when the list is loaded without error.
CardsShown == ~loading /\ ~error

\* prev.map((entry) => (entry.id === saved.id ? saved : entry))
replaceSaved(prev, saved) ==
  [i \in DOMAIN prev |-> IF prev[i].id = saved.id THEN saved ELSE prev[i]]

\* handleSubmitEntry of an edited entry, after the await of a 200.
UpdateSaved(id, typed) ==
  /\ ~effectPending
  /\ CardsShown
  /\ \E i \in DOMAIN entries : entries[i].id = id
  /\ trim(typed) # EmptyString
  /\ entries' = replaceSaved(entries, SavedEntry(id, trim(typed)))
  /\ effectPending' = TRUE
  /\ lastStep' = Step("update")
  /\ UNCHANGED <<arg, ret, pageByLetter, activeView, query, sortCallOrder,
                 loading, error, nextId>>
  /\ UNCHANGED apiVars

\* handleDeleteEntry, after the await of a 204:
\*   setEntries((prev) => prev.filter((item) => item.id !== entry.id))
DeleteOk(id) ==
  /\ ~effectPending
  /\ CardsShown
  /\ \E i \in DOMAIN entries : entries[i].id = id
  /\ entries' = SelectSeq(entries, LAMBDA item : item.id # id)
  /\ effectPending' = TRUE
  /\ lastStep' = Step("delete")
  /\ UNCHANGED <<arg, ret, pageByLetter, activeView, query, sortCallOrder,
                 loading, error, nextId>>
  /\ UNCHANGED apiVars

\* The pages the buttons of a section's nav ask for: Previous and Next when
\* enabled, and one button for each page.
pageButtons(section) ==
  (IF section.currentPage = 1 THEN {} ELSE {section.currentPage - 1})
    \cup 1..section.totalPages
    \cup (IF section.currentPage = section.totalPages THEN {} ELSE {section.currentPage + 1})

\* AgendaView: a click in the nav of a section with more than one page.
ClickPage ==
  /\ ~effectPending
  /\ CardsShown
  /\ activeView = "agenda"
  /\ Len(entries) > ITEMS_PER_PAGE   \* else no section has a second page
  /\ LET sections == groupedSections(entries, pageByLetter, sortCallOrder).value
     IN  \E i \in DOMAIN sections :
           /\ sections[i].totalPages > 1
           /\ \E page \in pageButtons(sections[i]) :
                handlePageChange(sections[i].letter, page)

\* The agenda view of the App, the titles typed being drawn from typedTitles.
NextOver(typedTitles) ==
  \/ \E behind \in 0..Len(entries) : LoadEntriesOk(behind)
  \/ LoadEntriesFailed
  \/ \E typed \in typedTitles : CreateSaved(typed)
  \/ \E id \in 1..MaxId, typed \in typedTitles : UpdateSaved(id, typed)
  \/ \E id \in 1..MaxId : DeleteOk(id)
  \/ ClickPage
  \/ RunEffect

Next == NextOver(TypedTitles)

Spec == Init /\ [][Next]_vars

NextTwoTitles == NextOver(TwoTypedTitles)

SpecTwoTitles == Init /\ [][NextTwoTitles]_vars

-----------------------------------------------------------------------------
(* Properties of the sections *)

\* The sections of the two views in the current state.
AgendaNow == groupedSections(entries, pageByLetter, sortCallOrder)
SearchNow == searchSections(entries, query, sortCallOrder)

\* Titles compared letter by letter with case and accents folded away,
\* stated without the comparators of the sort.
FoldedRankTable ==
  [c \in Chars |->
     CASE c \in LatinLower -> 20 + IndexOf(LowerAlphabet, c)
       [] c \in LatinUpper -> 20 + IndexOf(UpperAlphabet, c)
       [] c \in {"e-acute", "E-acute"} -> 25
       [] c = "#" -> 3
       [] OTHER -> 10]

FoldedRank(c) == FoldedRankTable[c]

RECURSIVE FoldedLeq(_, _)
FoldedLeq(s, t) ==
  \/ s = <<>>
  \/ /\ t # <<>>
     /\ \/ FoldedRank(Head(s)) < FoldedRank(Head(t))
        \/ /\ FoldedRank(Head(s)) = FoldedRank(Head(t))
           /\ FoldedLeq(Tail(s), Tail(t))

PositionIn(list, e) == CHOOSE i \in DOMAIN list : list[i].id = e.id

\* items is in ascending order of title, entries of equal titles in the
\* order of list.
AscendingAndStable(items, list) ==
  \A i, j \in DOMAIN items :
    i < j =>
      /\ FoldedLeq(items[i].title, items[j].title)
      /\ FoldedLeq(items[j].title, items[i].title)
           => PositionIn(list, items[i]) < PositionIn(list, items[j])

\* C2: in the agenda view and in the search view the entries of each section
\* are in ascending order of title under the case-insensitive comparator, and
\* entries whose titles compare equal keep the relative order they have in
\* the entry list.
C2_SortedStable ==
  LET agenda == AgendaNow
      search == SearchNow
  IN  /\ ~agenda.threw
      /\ ~search.threw
      /\ \A i \in DOMAIN agenda.value :
           AscendingAndStable(agenda.value[i].visible, entries)
      /\ \A i \in DOMAIN search.value :
           AscendingAndStable(search.value[i].visible, entries)

\* Two entries whose titles differ in case only are shown in list order.
C2_Witness ==
  /\ Len(entries) = 2
  /\ entries[1].title = <<"a", "b">>
  /\ entries[2].title = <<"A", "b">>
  /\ query = <<" ", "L">>
  /\ AgendaNow.value[1].visible = entries

LettersOf(sections) == [i \in DOMAIN sections |-> sections[i].letter]

Reverse(list) == [i \in DOMAIN list |-> list[Len(list) + 1 - i]]

SwapFirstTwo(list) ==
  IF Len(list) < 2
    THEN list
    ELSE [i \in DOMAIN list |-> IF i = 1 THEN list[2] ELSE IF i = 2 THEN list[1] ELSE list[i]]

Rotate(list) == IF list = <<>> THEN list ELSE Tail(list) \o <<Head(list)>>

\* The place of a key in the order '#', 'A', ..., 'Z'.
LetterRank(letter) ==
  IF letter = CatchAll THEN 0 ELSE IndexOf(UpperAlphabet, letter[1])

\* C3: the sections hold each observed letter key exactly once, in ascending
\* order, and the sequence of keys is the same for the same entries in
\* another list order.
C3_SectionOrder ==
  LET letters == LettersOf(AgendaNow.value)
      observed == {letterKey(entries[i].title) : i \in DOMAIN entries}
  IN  /\ {letters[i] : i \in DOMAIN letters} = observed
      /\ Len(letters) = Cardinality(observed)
      /\ \A i, j \in DOMAIN letters :
           i < j => LetterRank(letters[i]) < LetterRank(letters[j])
      /\ \A other \in {Reverse(entries), SwapFirstTwo(entries), Rotate(entries)} :
           sectionLetters(other) = letters
      /\ LettersOf(searchSections(entries, EmptyString, sortCallOrder).value) = letters

\* A list whose keys first appear in the order B, '#'.
C3_Witness ==
  /\ Len(entries) = 2
  /\ <<entries[1].title, entries[2].title>> = <<<<"b">>, <<"e-acute">>>>
  /\ LettersOf(AgendaNow.value) = <<CatchAll, <<"B">>>>
  /\ ~effectPending

\* The entries of a key in the list.
CountOf(list, letter) ==
  Cardinality({i \in DOMAIN list : letterKey(list[i].title) = letter})

\* The sorted entries of a section, all pages.
AllOf(buckets, letter) ==
  buckets[CHOOSE i \in DOMAIN buckets : buckets[i].letter = letter].items

\* C4: each agenda section with n entries has totalPages = max(1, ceil(n/5)),
\* a displayed page in [1, totalPages] whatever page is stored for its letter
\* (the stored page when that is in range, 1 below the range or when missing,
\* totalPages above it), and shows the sorted entries of that page.
C4_Pagination ==
  LET agenda == AgendaNow.value
      buckets == orderedBuckets(entries, sortCallOrder).value
  IN
  \A i \in DOMAIN agenda :
    LET sec == agenda[i]
        n == CountOf(entries, sec.letter)
        all == AllOf(buckets, sec.letter)
    IN  /\ sec.totalPages >= 1
        /\ sec.totalPages * ITEMS_PER_PAGE >= n
        /\ sec.totalPages > 1 => (sec.totalPages - 1) * ITEMS_PER_PAGE < n
        /\ sec.currentPage \in 1..sec.totalPages
        /\ sec.letter \notin DOMAIN pageByLetter => sec.currentPage = 1
        /\ sec.letter \in DOMAIN pageByLetter =>
             LET stored == pageByLetter[sec.letter]
             IN  /\ stored \in 1..sec.totalPages => sec.currentPage = stored
                 /\ stored < 1 => sec.currentPage = 1
                 /\ stored > sec.totalPages => sec.currentPage = sec.totalPages
        /\ Len(all) = n
        /\ Len(sec.visible) = Min(ITEMS_PER_PAGE, n - (sec.currentPage - 1) * ITEMS_PER_PAGE)
        /\ \A k \in DOMAIN sec.visible :
             sec.visible[k] = all[(sec.currentPage - 1) * ITEMS_PER_PAGE + k]

\* Twelve entries under A and a stored page of 4: page 3 of 3 is shown.
C4_Witness ==
  /\ Len(entries) = 12
  /\ <<"A">> \in DOMAIN pageByLetter
  /\ pageByLetter[<<"A">>] = 4
  /\ AgendaNow.value[1].totalPages = 3
  /\ AgendaNow.value[1].currentPage = 3
  /\ Len(AgendaNow.value[1].visible) = 2

\* The search text of an entry: title, note, user tag, formatted date and
\* formatted creation time, joined by single spaces, in lower case.
SearchText(e) ==
  toLowerCase(orEmpty(e.title) \o <<" ">> \o orEmpty(e.note) \o <<" ">>
                \o orEmpty(e.userId) \o <<" ">> \o formatDate(e.date) \o <<" ">>
                \o formatDate(e.createdAt))

Contains(text, part) ==
  \E from \in 1..(Len(text) + 1) :
    /\ from + Len(part) - 1 <= Len(text)
    /\ \A k \in 1..Len(part) : text[from + k - 1] = part[k]

\* C8: the empty query selects every entry; any other query selects exactly
\* the entries whose search text contains the trimmed, lower-cased query; a
\* query that matches nothing gives no section and no error.
C8_SearchFilter ==
  LET q == toLowerCase(trim(query))
      selected == filtered(entries, query)
      selectedIds == {selected[i].id : i \in DOMAIN selected}
      search == SearchNow
      shown == UNION {{search.value[k].visible[m] : m \in DOMAIN search.value[k].visible} :
                        k \in DOMAIN search.value}
  IN  /\ q = EmptyString => selected = entries
      /\ q # EmptyString =>
           /\ selectedIds = {entries[i].id : i \in {j \in DOMAIN entries :
                                                     Contains(SearchText(entries[j]), q)}}
           /\ \A i, j \in DOMAIN selected :
                i < j => PositionIn(entries, selected[i]) < PositionIn(entries, selected[j])
      /\ ~search.threw
      /\ selected = <<>> => search.value = <<>>
      /\ \A i \in DOMAIN entries :
           (entries[i].id \in selectedIds) <=> (entries[i] \in shown)

\* The query ' L' selects an entry by its note 'L' alone.
C8_Witness ==
  /\ activeView = "search"
  /\ query = <<" ", "L">>
  /\ Len(entries) = 2
  /\ entries[1].title = <<"a", "b">>
  /\ entries[2].title = <<"A", "b">>
  /\ entries[2].note = <<"L">>
  /\ filtered(entries, query) = <<entries[2]>>

\* The entries of section i of the agenda, its pages one after the other.
RECURSIVE PagesFrom(_, _, _)
PagesFrom(letter, page, totalPages) ==
  IF page > totalPages
    THEN <<>>
    ELSE LET turned == groupedSections(bucketItems(entries, letter),
                                       [k \in {letter} |-> page], sortCallOrder)
         IN  turned.value[1].visible \o PagesFrom(letter, page + 1, totalPages)

\* C9: a search section shows all its matching entries on one page, whatever
\* pageByLetter holds; for the empty query the search sections are the agenda
\* sections, each with the entries of all its pages in the same order.
C9_SearchOnePage ==
  LET search == SearchNow.value
      agenda == AgendaNow.value
      matching == filtered(entries, query)
      all == searchSections(entries, EmptyString, sortCallOrder).value
  IN  /\ \A i \in DOMAIN search :
           /\ search[i].totalPages = 1
           /\ search[i].currentPage = 1
           /\ Len(search[i].visible) = CountOf(matching, search[i].letter)
      /\ Len(all) = Len(agenda)
      /\ \A i \in DOMAIN all :
           /\ all[i].letter = agenda[i].letter
           /\ all[i].visible = PagesFrom(agenda[i].letter, 1, agenda[i].totalPages)

\* Twelve entries of one letter in the search view, the stored page being 2.
C9_Witness ==
  /\ activeView = "search"
  /\ query = EmptyString
  /\ Len(entries) = 12
  /\ pageByLetter = [k \in {<<"A">>} |-> 2]
  /\ Len(SearchNow.value[1].visible) = 12
  /\ Len(AgendaNow.value[1].visible) = ITEMS_PER_PAGE

\* C10: for every entry list, also with missing titles and malformed dates,
\* reconciliation, grouping, sorting and filtering complete without raising,
\* and the entries with a missing title are in the catch-all section.
C10_EngineTotal ==
  LET agenda == AgendaNow
      search == SearchNow
      buckets == orderedBuckets(entries, sortCallOrder).value
  IN  /\ ~agenda.threw
      /\ ~search.threw
      /\ \A i \in DOMAIN entries :
           IsNullish(entries[i].title) =>
             /\ \E k \in DOMAIN agenda.value : agenda.value[k].letter = CatchAll
             /\ \E m \in DOMAIN AllOf(buckets, CatchAll) :
                  AllOf(buckets, CatchAll)[m] = entries[i]

-----------------------------------------------------------------------------
(* Properties of the page map *)

\* The number of pages of n entries: the least p >= 1 with p * 5 >= n.
PagesFor(n) ==
  CHOOSE p \in 1..(n + 1) :
    /\ p * ITEMS_PER_PAGE >= n
    /\ p = 1 \/ (p - 1) * ITEMS_PER_PAGE < n

InRange(page, low, high) ==
  IF page < low THEN low ELSE IF page > high THEN high ELSE page

KeysOf(list) == {letterKey(list[i].title) : i \in DOMAIN list}

\* C5: every change of the entry list is followed by the reconciliation, which
\* leaves the stored page of each letter that has entries at
\* min(max(previous page, 1), totalPages), the previous page of a letter
\* without one being 1: unchanged when in range, clamped when the count
\* shrank; after it no stored page is below 1 or above its letter's
\* totalPages, and no letter without entries has one.
C5_Reconciliation ==
  [][/\ entries' # entries => effectPending'
     /\ (effectPending /\ ~effectPending') =>
          /\ entries' = entries
          /\ DOMAIN pageByLetter' = KeysOf(entries)
          /\ \A letter \in KeysOf(entries) :
               LET previous == IF letter \in DOMAIN pageByLetter
                                 THEN pageByLetter[letter] ELSE 1
                   totalPages == PagesFor(CountOf(entries, letter))
               IN  /\ pageByLetter'[letter] = InRange(previous, 1, totalPages)
                   /\ pageByLetter'[letter] >= 1
                   /\ pageByLetter'[letter] <= totalPages]_vars

\* Six entries under A and a stored page of 2, one of them deleted: the page
\* of A is clamped to 1, and the page of B stays.
C5_Witness ==
  /\ lastStep.op = "effect clamped"
  /\ CountOf(entries, <<"A">>) = ITEMS_PER_PAGE
  /\ CountOf(entries, <<"B">>) = 1
  /\ pageByLetter = [k \in {<<"A">>, <<"B">>} |-> 1]

SamePageOf(letter) ==
  /\ (letter \in DOMAIN pageByLetter) <=> (letter \in DOMAIN pageByLetter')
  /\ letter \in DOMAIN pageByLetter => pageByLetter'[letter] = pageByLetter[letter]

\* C6: a create whose saved title has letter key L sets the stored page of L
\* to 1, a page change for L sets the page of L, and in both the stored page
\* of every other letter is unchanged.
C6_PagePerLetter ==
  [][/\ Len(entries') = Len(entries) + 1 =>
          LET created == letterKey(entries'[1].title)
          IN  /\ created \in DOMAIN pageByLetter'
              /\ pageByLetter'[created] = 1
              /\ \A letter \in (DOMAIN pageByLetter \cup DOMAIN pageByLetter') \ {created} :
                   SamePageOf(letter)
     /\ lastStep'.op = "page" =>
          /\ entries' = entries
          /\ \E turned \in DOMAIN pageByLetter' :
               \A letter \in (DOMAIN pageByLetter \cup DOMAIN pageByLetter') \ {turned} :
                 SamePageOf(letter)]_vars

\* An entry is created under B while the stored page of A is 2.
C6_Witness ==
  /\ lastStep.op = "create"
  /\ letterKey(entries[1].title) = <<"B">>
  /\ <<"A">> \in DOMAIN pageByLetter
  /\ pageByLetter[<<"A">>] = 2
  /\ pageByLetter[<<"B">>] = 1

\* C7: right after a create, the list being loaded and shown, the new entry
\* is among the visible entries of the section of its letter, on page 1,
\* whatever the section held before.
C7_CreatedVisible ==
  (lastStep.op = "create" /\ CardsShown) =>
    LET agenda == AgendaNow.value
        created == entries[1]
    IN  \E i \in DOMAIN agenda :
          /\ agenda[i].letter = letterKey(created.title)
          /\ agenda[i].currentPage = 1
          /\ \E k \in DOMAIN agenda[i].visible : agenda[i].visible[k] = created

-----------------------------------------------------------------------------
(* The API: apps/api/src/index.ts over the rows of prisma.entry *)

\* A JSON value that is no string.
ANumber == <<"number">>

\* typeof v === 'string'
isString(v) == v \notin {Null, Undefined, ANumber}

\* process.env.DEFAULT_USER_ID ?? 'couple'
defaultUserId == <<"c">>

\* The title test without the trim.
titleRejectedUntrimmed(title) == ~isString(title) \/ title = EmptyString

\* typeof title !== 'string' || !title.trim()
titleRejected(title) == ~isString(title) \/ trim(title) = EmptyString

\* The user tag taken as supplied.
resolvedUserIdUntrimmed(userId) ==
  IF isString(userId) /\ Len(userId) > 0 THEN userId ELSE defaultUserId

\* typeof userId === 'string' && userId.trim().length > 0 ? userId.trim() : defaultUserId
resolvedUserId(userId) ==
  IF isString(userId) /\ Len(trim(userId)) > 0 THEN trim(userId) ELSE defaultUserId

\* typeof note === 'string' && note.trim() ? note.trim() : null
resolvedNote(note) ==
  IF isString(note) /\ trim(note) # EmptyString THEN trim(note) ELSE Null

\* date ? new Date(date) : null, for a date that parses
resolvedDate(date) ==
  IF IsNullish(date) \/ date = EmptyString THEN Null ELSE date

\* The data object of prisma.entry.create
createData(body) ==
  [userId |-> resolvedUserId(body.userId),
   title |-> trim(body.title),
   note |-> resolvedNote(body.note),
   date |-> resolvedDate(body.date)]

\* The data object of prisma.entry.update with the user tag of the body added.
updateDataWithUserId(body) ==
  [title |-> trim(body.title), note |-> resolvedNote(body.note),
   userId |-> resolvedUserId(body.userId)]

\* The data object of prisma.entry.update
updateData(body) ==
  [title |-> trim(body.title), note |-> resolvedNote(body.note)]

\* What the store fills in for a new row: the identifier, the creation
\* timestamp (the store's clock, which advances from one row to the next)
\* and the done flag.
assignedByStore(id) == [id |-> id, createdAt |-> id, done |-> FALSE]

\* The fields of a row, those named in data taken from data.
withData(row, data) ==
  [field \in DOMAIN row \cup DOMAIN data |->
     IF field \in DOMAIN data THEN data[field] ELSE row[field]]

\* prisma.entry.create({ data }): the rows with the created row added.
prismaCreate(rows, data, id) == Append(rows, withData(assignedByStore(id), data))

\* where: { id } matches a row
rowExists(rows, id) == \E i \in DOMAIN rows : rows[i].id = id

rowOf(rows, id) == rows[CHOOSE i \in DOMAIN rows : rows[i].id = id]

\* prisma.entry.update({ where: { id }, data }): the fields of data replace
\* those of the row, the others stay.
prismaUpdate(rows, id, data) ==
  [i \in DOMAIN rows |-> IF rows[i].id = id THEN withData(rows[i], data) ELSE rows[i]]

\* prisma.entry.delete({ where: { id } })
prismaDelete(rows, id) == SelectSeq(rows, LAMBDA row : row.id # id)

\* prisma.entry.findMany({ orderBy: { createdAt: 'desc' } })
RECURSIVE findMany(_)
findMany(rows) ==
  IF rows = <<>>
    THEN <<>>
    ELSE LET newest == CHOOSE i \in DOMAIN rows :
                         \A j \in DOMAIN rows : rows[j].createdAt <= rows[i].createdAt
         IN  <<rows[newest]>>
               \o findMany(SubSeq(rows, 1, newest - 1) \o SubSeq(rows, newest + 1, Len(rows)))

\* res.status(...).json(...) / .send()
Response(status, body) == [status |-> status, body |-> body]

\* The outcome of a handler: the rows after it and the response sent.
Outcome(rows, response) == [rows |-> rows, response |-> response]

TitleRequired == [error |-> "Title is required."]
EntryNotFound == [error |-> "Entry not found."]
NoBody == [error |-> "no body"]

\* app.get('/api/entries')
getEntries(rows) == Outcome(rows, Response(200, [data |-> findMany(rows)]))

\* app.post('/api/entries'); id is the identifier the store assigns.
postEntries(rows, body, id) ==
  IF titleRejected(body.title)
    THEN Outcome(rows, Response(400, TitleRequired))
    ELSE LET created == prismaCreate(rows, createData(body), id)
         IN  Outcome(created, Response(201, created[Len(created)]))

\* app.put('/api/entries/:id'); an update that matches no row throws P2025.
putEntry(rows, id, body) ==
  IF titleRejected(body.title)
    THEN Outcome(rows, Response(400, TitleRequired))
    ELSE IF ~rowExists(rows, id)
           THEN Outcome(rows, Response(404, EntryNotFound))
           ELSE LET updated == prismaUpdate(rows, id, updateData(body))
                IN  Outcome(updated, Response(200, rowOf(updated, id)))

\* A delete that answers 204 whether a row matched or not.
deleteEntryAlways204(rows, id) ==
  Outcome(prismaDelete(rows, id), Response(204, NoBody))

\* app.delete('/api/entries/:id'); a delete that matches no row throws P2025.
deleteEntry(rows, id) ==
  IF rowExists(rows, id)
    THEN Outcome(prismaDelete(rows, id), Response(204, NoBody))
    ELSE Outcome(rows, Response(404, EntryNotFound))

\* Request bodies: the title missing, no string, blank, and valid with and
\* without the optional fields.
ApiBodies ==
  {[title |-> Undefined, note |-> <<"n">>, userId |-> <<"u">>, date |-> Undefined],
   [title |-> ANumber, note |-> Undefined, userId |-> Undefined, date |-> Undefined],
   [title |-> <<" ">>, note |-> <<"n">>, userId |-> <<"u">>, date |-> Undefined],
   [title |-> <<" ", "a">>, note |-> <<" ">>, userId |-> <<" ">>, date |-> Undefined],
   [title |-> <<"b", " ">>, note |-> <<"n", " ">>, userId |-> <<" ", "u">>,
    date |-> CreatedAt]}

\* req.body ?? {}: a request without a body.
EmptyBody ==
  [title |-> Undefined, note |-> Undefined, userId |-> Undefined, date |-> Undefined]

\* A request; id is 0 for the routes without :id.
Request(method, id, body) == [method |-> method, id |-> id, body |-> body]

InitApi ==
  /\ arg = Request("none", 0, EmptyBody)
  /\ ret = Response(0, NoBody)
  /\ entries = <<>>
  /\ pageByLetter = NoPages
  /\ activeView = "agenda"
  /\ query = EmptyString
  /\ effectPending = FALSE
  /\ sortCallOrder = "pivot-first"
  /\ loading = TRUE
  /\ error = FALSE
  /\ nextId = 1
  /\ lastStep = Step("listen")
  /\ store = <<>>
  /\ inFlight = {}
  /\ ui = IdleUi
  /\ history = NoHistory

clientVars ==
  <<entries, pageByLetter, activeView, query, effectPending, sortCallOrder,
    loading, error, inFlight, ui, history>>

\* The API answers one request.
Answer(request, outcome) ==
  /\ arg' = request
  /\ ret' = outcome.response
  /\ store' = outcome.rows
  /\ nextId' = IF outcome.response.status = 201 THEN nextId + 1 ELSE nextId
  /\ lastStep' = Step(request.method)
  /\ UNCHANGED clientVars

Get == Answer(Request("GET", 0, EmptyBody), getEntries(store))

\* The store assigns at most MaxRows + 1 identifiers.
Post(body) ==
  /\ nextId <= MaxRows + 1
  /\ Answer(Request("POST", 0, body), postEntries(store, body, nextId))

Put(id, body) == Answer(Request("PUT", id, body), putEntry(store, id, body))

Delete(id) == Answer(Request("DELETE", id, EmptyBody), deleteEntry(store, id))

\* Identifiers of requests: of rows stored, deleted and never created.
RequestIds == 1..(MaxRows + 2)

NextApi ==
  \/ Get
  \/ \E body \in ApiBodies : Post(body)
  \/ \E id \in RequestIds, body \in ApiBodies : Put(id, body)
  \/ \E id \in RequestIds : Delete(id)

SpecApi == InitApi /\ [][NextApi]_vars

-----------------------------------------------------------------------------
(* The App and the API together: one App, its requests answered in any     *)
(* order, each response handled when it arrives                            *)

\* DEFAULT_USER_ID, 'couple' unless the environment names another
DEFAULT_USER_ID == <<"c">>

\* What the form holds when it is submitted: a title with or without a note,
\* and a blank title.
FormStates ==
  {[title |-> <<"a">>, note |-> EmptyString, userId |-> DEFAULT_USER_ID],
   [title |-> <<"b", " ">>, note |-> <<"n">>, userId |-> <<" ">>],
   [title |-> <<" ">>, note |-> <<"n">>, userId |-> DEFAULT_USER_ID]}

\* handleSubmitEntry: the payload; a field left out is undefined to the API.
payloadOf(formState, isEditing) ==
  [title |-> trim(formState.title),
   note |-> IF trim(formState.note) # EmptyString THEN trim(formState.note) ELSE Undefined,
   userId |-> IF isEditing
                THEN Undefined
                ELSE IF trim(formState.userId) # EmptyString
                       THEN trim(formState.userId)
                       ELSE DEFAULT_USER_ID,
   date |-> Undefined]

\* A request on its way to the API (stage "request", status 0) or its
\* response on its way back (stage "response"); status 0 of a response is a
\* fetch that rejected.  id is 0 for the routes without :id.
Message(kind, stage, id, status, body) ==
  [kind |-> kind, stage |-> stage, id |-> id, status |-> status, body |-> body]

\* response.ok
isOk(status) == status \in 200..299

\* const isEditing = editingEntryId !== null
isEditing == ui.editingEntryId # NoEntryId

\* The App is mounted: the first effect has called loadEntries, which has set
\* loading and sent the list request.
InitClient ==
  /\ arg = NotCalled
  /\ ret = NotCalled
  /\ entries = <<>>
  /\ pageByLetter = NoPages
  /\ activeView = "agenda"
  /\ query = EmptyString
  /\ effectPending = FALSE
  /\ sortCallOrder = "pivot-first"
  /\ loading = TRUE
  /\ error = FALSE
  /\ nextId = 1
  /\ lastStep = Step("mount")
  /\ store = <<>>
  /\ inFlight = {Message("list", "request", 0, 0, EmptyBody)}
  /\ ui = IdleUi
  /\ history = NoHistory

engineVars == <<arg, ret, activeView, query, sortCallOrder>>

\* The route of the API a request is sent to.
routed(rows, request, id) ==
  IF request.kind = "list" THEN getEntries(rows)
  ELSE IF request.kind = "create" THEN postEntries(rows, request.body, id)
  ELSE IF request.kind = "update" THEN putEntry(rows, request.id, request.body)
  ELSE deleteEntry(rows, request.id)

\* The API answers a request; the response is on its way.
Serve(request) ==
  /\ request.stage = "request"
  /\ LET outcome == routed(store, request, nextId)
     IN  /\ store' = outcome.rows
         /\ nextId' = IF outcome.response.status = 201 THEN nextId + 1 ELSE nextId
         /\ inFlight' = (inFlight \ {request})
                          \cup {Message(request.kind, "response", request.id,
                                        outcome.response.status, outcome.response.body)}
  /\ lastStep' = Step("serve")
  /\ UNCHANGED <<entries, pageByLetter, effectPending, loading, error, ui, history>>
  /\ UNCHANGED engineVars

\* The network loses a request before the API has it, or a response after:
\* the fetch rejects.
NetworkError(message) ==
  /\ message.stage = "request" \/ message.status # 0
  /\ inFlight' = (inFlight \ {message})
                   \cup {Message(message.kind, "response", message.id, 0, NoBody)}
  /\ lastStep' = Step("network error")
  /\ UNCHANGED <<entries, pageByLetter, effectPending, loading, error, nextId,
                 store, ui, history>>
  /\ UNCHANGED engineVars

\* loadEntries, after the await.
LoadEntriesAnswered(response) ==
  /\ response.kind = "list"
  /\ response.stage = "response"
  /\ ~effectPending
  /\ inFlight' = inFlight \ {response}
  /\ loading' = FALSE
  /\ IF isOk(response.status)
       THEN /\ entries' = response.body.data
            /\ effectPending' = TRUE
            /\ lastStep' = Step("load")
            /\ UNCHANGED <<error, history>>
       ELSE /\ error' = TRUE
            /\ history' = [history EXCEPT !.failed = TRUE]
            /\ lastStep' = Step("load failed")
            /\ UNCHANGED <<entries, effectPending>>
  /\ UNCHANGED <<pageByLetter, nextId, store, ui>>
  /\ UNCHANGED engineVars

\* openNewEntry: the button of the header, behind the backdrop while the
\* form is open.
OpenNewEntry ==
  /\ ~effectPending
  /\ ~ui.isFormOpen
  /\ ui' = [ui EXCEPT !.isFormOpen = TRUE, !.editingEntryId = NoEntryId]
  /\ lastStep' = Step("open new")
  /\ UNCHANGED <<entries, pageByLetter, effectPending, loading, error, nextId,
                 store, inFlight, history>>
  /\ UNCHANGED engineVars

\* The identifiers of the cards.
idsOf(list) == {list[i].id : i \in DOMAIN list}

\* The buttons of a card, disabled={isDeleting}.
cardEnabled(id) ==
  /\ CardsShown
  /\ ~ui.isFormOpen
  /\ id \in idsOf(entries)
  /\ id \notin ui.deletingIds

\* openEditEntry: the Edit button of a card.
OpenEditEntry(id) ==
  /\ ~effectPending
  /\ cardEnabled(id)
  /\ ui' = [ui EXCEPT !.isFormOpen = TRUE, !.editingEntryId = id]
  /\ lastStep' = Step("open edit")
  /\ UNCHANGED <<entries, pageByLetter, effectPending, loading, error, nextId,
                 store, inFlight, history>>
  /\ UNCHANGED engineVars

\* closeForm
closedForm(prev) == [prev EXCEPT !.isFormOpen = FALSE, !.editingEntryId = NoEntryId]

\* closeForm as the click on the backdrop or on the close button, neither of
\* which is disabled while the form is submitting.
CloseForm ==
  /\ ~effectPending
  /\ ui.isFormOpen
  /\ ui' = closedForm(ui)
  /\ lastStep' = Step("close")
  /\ UNCHANGED <<entries, pageByLetter, effectPending, loading, error, nextId,
                 store, inFlight, history>>
  /\ UNCHANGED engineVars

\* handleSubmitEntry up to the await: the submit button is disabled while
\* submitting; a blank title returns before any request; isEditing and
\* editingEntryId are those of the render the form was submitted in.
Submit(formState) ==
  /\ ~effectPending
  /\ ui.isFormOpen
  /\ ~ui.submitting
  /\ IF trim(formState.title) = EmptyString
       THEN /\ lastStep' = Step("validation failed")
            /\ UNCHANGED <<inFlight, ui>>
       ELSE LET request == Message(IF isEditing THEN "update" ELSE "create", "request",
                                   ui.editingEntryId, 0, payloadOf(formState, isEditing))
            IN  /\ isEditing \/ nextId <= MaxCreated  \* the entries created are bounded
                /\ inFlight' = inFlight \cup {request}
                /\ ui' = [ui EXCEPT !.submitting = TRUE]
                /\ lastStep' = Step("submit")
  /\ UNCHANGED <<entries, pageByLetter, effectPending, loading, error, nextId,
                 store, history>>
  /\ UNCHANGED engineVars

\* setEntries((prev) => isEditing ? prev.map(...) : [saved, ...prev]), which
\* a response that is not ok does not reach.
savedEntries(prev, saved, editing, ok) ==
  IF ~ok THEN prev
  ELSE IF editing THEN replaceSaved(prev, saved) ELSE <<saved>> \o prev

\* The response handled, and the list requested again when it is ok.
handledWithReload(flight, response) ==
  (flight \ {response})
    \cup (IF isOk(response.status)
           THEN {Message("list", "request", 0, 0, EmptyBody)} ELSE {})

\* What is in flight after the App has handled the response of a mutation:
\* neither handler sends a request after its await.
handled(flight, response) == flight \ {response}

\* handleSubmitEntry, after the await.
SaveAnswered(response) ==
  /\ response.kind \in {"create", "update"}
  /\ response.stage = "response"
  /\ ~effectPending
  /\ inFlight' = handled(inFlight, response)
  /\ LET ok == isOk(response.status)
         editing == response.kind = "update"
     IN  /\ entries' = savedEntries(entries, response.body, editing, ok)
         /\ pageByLetter' = IF ok /\ ~editing
                              THEN createdPages(pageByLetter, response.body)
                              ELSE pageByLetter
         /\ effectPending' = ok
         /\ ui' = [(IF ok THEN closedForm(ui) ELSE ui) EXCEPT !.submitting = FALSE]
         /\ history' = IF ok THEN [history EXCEPT !.unfollowed = TRUE]
                             ELSE [history EXCEPT !.failed = TRUE]
         /\ lastStep' = Step(IF ok THEN response.kind
                             ELSE IF response.status = 404 THEN "save not found"
                             ELSE "save failed")
  /\ UNCHANGED <<loading, error, nextId, store>>
  /\ UNCHANGED engineVars

\* handleDeleteEntry up to the await, window.confirm answered with OK.
ClickDelete(id) ==
  /\ ~effectPending
  /\ cardEnabled(id)
  /\ ui' = [ui EXCEPT !.deletingIds = @ \cup {id}]
  /\ inFlight' = inFlight \cup {Message("delete", "request", id, 0, EmptyBody)}
  /\ lastStep' = Step("click delete")
  /\ UNCHANGED <<entries, pageByLetter, effectPending, loading, error, nextId,
                 store, history>>
  /\ UNCHANGED engineVars

\* The list filtered, the response not looked at.
deletedEntriesUnchecked(prev, id, ok) == SelectSeq(prev, LAMBDA item : item.id # id)

\* setEntries((prev) => prev.filter((item) => item.id !== entry.id)), which
\* a response that is not ok does not reach.
deletedEntries(prev, id, ok) ==
  IF ok THEN SelectSeq(prev, LAMBDA item : item.id # id) ELSE prev

\* handleDeleteEntry, after the await.
DeleteAnswered(response) ==
  /\ response.kind = "delete"
  /\ response.stage = "response"
  /\ ~effectPending
  /\ inFlight' = handled(inFlight, response)
  /\ LET ok == isOk(response.status)
     IN  /\ entries' = deletedEntries(entries, response.id, ok)
         /\ effectPending' = ok
         /\ history' = IF ok THEN [history EXCEPT !.unfollowed = TRUE]
                             ELSE [history EXCEPT !.failed = TRUE]
         /\ lastStep' = Step(IF ok THEN "delete" ELSE "delete failed")
  /\ ui' = [ui EXCEPT !.deletingIds = @ \ {response.id}]
  /\ UNCHANGED <<pageByLetter, loading, error, nextId, store>>
  /\ UNCHANGED engineVars

NextClient ==
  \/ RunEffect
  \/ \E message \in inFlight : Serve(message)
  \/ \E message \in inFlight : NetworkError(message)
  \/ \E message \in inFlight : LoadEntriesAnswered(message)
  \/ OpenNewEntry
  \/ \E id \in idsOf(entries) : OpenEditEntry(id)
  \/ CloseForm
  \/ \E formState \in FormStates : Submit(formState)
  \/ \E message \in inFlight : SaveAnswered(message)
  \/ \E id \in idsOf(entries) : ClickDelete(id)
  \/ \E message \in inFlight : DeleteAnswered(message)

SpecClient == InitClient /\ [][NextClient]_vars

-----------------------------------------------------------------------------
(* Properties of the API *)

\* A title that is missing, no string, or blank.
NoTitle(title) ==
  \/ title \in {Null, Undefined, ANumber}
  \/ \A i \in DOMAIN title : title[i] \in WhiteSpace

\* A string that is not empty and neither starts nor ends with white space.
Trimmed(text) ==
  /\ text \notin {Null, Undefined, ANumber}
  /\ Len(text) > 0
  /\ text[1] \notin WhiteSpace
  /\ text[Len(text)] \notin WhiteSpace

\* C11: after every request every stored title is a non-empty string without
\* surrounding white space, and a create or update whose title is missing,
\* no string or blank is answered 400 and leaves the store as it was.
C11_TitleNeverEmpty ==
  [][/\ \A i \in DOMAIN store' : Trimmed(store'[i].title)
     /\ (arg'.method \in {"POST", "PUT"} /\ NoTitle(arg'.body.title)) =>
          /\ ret'.status = 400
          /\ store' = store]_vars

\* An update of a stored row with a blank title is rejected.
C11_Witness ==
  /\ lastStep.op = "PUT"
  /\ arg.body.title = <<" ">>
  /\ rowExists(store, arg.id)
  /\ ret.status = 400

\* A string without its leading and trailing white space.
Stripped(text) ==
  LET ink == {i \in DOMAIN text : text[i] \notin WhiteSpace}
  IN  IF ink = {}
        THEN EmptyString
        ELSE SubSeq(text, CHOOSE i \in ink : \A j \in ink : i <= j,
                          CHOOSE i \in ink : \A j \in ink : i >= j)

\* The user tag a create stores for the tag supplied.
UserTagFor(supplied) ==
  IF supplied \in {Null, Undefined, ANumber} \/ Stripped(supplied) = EmptyString
    THEN defaultUserId
    ELSE Stripped(supplied)

NoSuchRow == \A i \in DOMAIN store : store[i].id # arg'.id

\* The stored rows without the row of an identifier, the others as they were.
Without(rows, id) ==
  LET kept == {i \in DOMAIN rows : rows[i].id # id}
      place(k) == CHOOSE i \in kept : Cardinality({j \in kept : j <= i}) = k
  IN  [k \in 1..Cardinality(kept) |-> rows[place(k)]]

\* A delete whose identifier matches is answered 204 without a body and
\* removes that row and no other.
DeleteRemovesOne ==
  (arg'.method = "DELETE" /\ ~NoSuchRow) =>
    /\ ret'.status = 204
    /\ ret'.body = NoBody
    /\ Len(store') = Len(store) - 1
    /\ store' = Without(store, arg'.id)

\* C13 as stated: every update and every delete whose identifier matches no
\* stored entry is answered 404 and leaves the store unchanged; a delete
\* whose identifier matches removes that entry and is answered 204.
C13_NotFoundAnyUpdate ==
  [][/\ (arg'.method \in {"PUT", "DELETE"} /\ NoSuchRow) =>
          /\ ret'.status = 404
          /\ store' = store
     /\ DeleteRemovesOne]_vars

\* C13, amended: a delete, or an update with a valid title, whose identifier
\* matches no stored entry (never created, or deleted) is answered 404 and
\* leaves the store unchanged; an update with an invalid title is answered
\* 400 whether its identifier matches or not, the store unchanged; a delete
\* whose identifier matches removes that entry and is answered 204 with no
\* body.
C13_NotFound ==
  [][/\ (arg'.method = "DELETE" /\ NoSuchRow) =>
          /\ ret'.status = 404
          /\ store' = store
     /\ (arg'.method = "PUT" /\ NoSuchRow) =>
          /\ ret'.status = IF NoTitle(arg'.body.title) THEN 400 ELSE 404
          /\ store' = store
     /\ DeleteRemovesOne]_vars

\* An entry that was created and deleted is deleted again: 404.
C13_Witness ==
  /\ lastStep.op = "DELETE"
  /\ arg.id < nextId
  /\ ~rowExists(store, arg.id)
  /\ ret.status = 404
  /\ Len(store) = 1

\* The note an update stores for the note supplied.
NoteFor(supplied) ==
  IF supplied \in {Null, Undefined, ANumber} \/ Stripped(supplied) = EmptyString
    THEN Null
    ELSE Stripped(supplied)

\* C14: an update answered 200 changes the title and the note of the entry
\* of its identifier and nothing else: that entry keeps its identifier,
\* date, user tag, done flag and creation timestamp, whatever the body
\* carries, and every other entry is as it was.
C14_UpdateFrame ==
  [][(arg'.method = "PUT" /\ ret'.status = 200) =>
       /\ Len(store') = Len(store)
       /\ \A i \in DOMAIN store :
            IF store[i].id = arg'.id
              THEN /\ DOMAIN store'[i] = DOMAIN store[i]
                   /\ \A field \in {"id", "date", "userId", "done", "createdAt"} :
                        store'[i][field] = store[i][field]
                   /\ store'[i].title = Stripped(arg'.body.title)
                   /\ store'[i].note = NoteFor(arg'.body.note)
                   /\ ret'.body = store'[i]
              ELSE store'[i] = store[i]]_vars

\* An entry with the default user tag and no date is updated by a body that
\* carries another user tag and a date, another entry being stored.
C14_Witness ==
  /\ lastStep.op = "PUT"
  /\ ret.status = 200
  /\ arg.body.userId = <<" ", "u">>
  /\ arg.body.date = CreatedAt
  /\ ret.body.userId = defaultUserId
  /\ ret.body.date = Null
  /\ ret.body.title = <<"b">>
  /\ Len(store) = 2

-----------------------------------------------------------------------------
(* Properties of the App's list *)

\* C15: the agenda sections are the letter keys of the entries of the list,
\* each once; every section shows at least one entry, so a letter whose last
\* entry was deleted or retitled has no section, also before the page map is
\* reconciled; and every entry of the list is in the section of its letter
\* and in no other.
C15_SectionsAreKeys ==
  LET agenda == AgendaNow.value
      buckets == orderedBuckets(entries, sortCallOrder).value
  IN  /\ {agenda[i].letter : i \in DOMAIN agenda} = KeysOf(entries)
      /\ Len(agenda) = Cardinality(KeysOf(entries))
      /\ \A i \in DOMAIN agenda :
           /\ Len(agenda[i].visible) >= 1
           /\ \A k \in DOMAIN agenda[i].visible :
                letterKey(agenda[i].visible[k].title) = agenda[i].letter
      /\ \A e \in DOMAIN entries :
           \A i \in DOMAIN buckets :
             (buckets[i].letter = letterKey(entries[e].title))
               <=> (\E k \in DOMAIN buckets[i].items : buckets[i].items[k] = entries[e])

\* The last entry under A was deleted; the page map still has the key A.
C15_Witness ==
  /\ lastStep.op = "delete"
  /\ effectPending
  /\ <<"A">> \in DOMAIN pageByLetter
  /\ KeysOf(entries) = {<<"B">>}
  /\ LettersOf(AgendaNow.value) = <<<<"B">>>>

-----------------------------------------------------------------------------
(* Properties of the App and the API together *)

\* The response the App handles in the step: taken from the network, and
\* nothing put in its place.
Taken ==
  {message \in inFlight :
     message.stage = "response" /\ inFlight' = inFlight \ {message}}

\* C16: a create, update or delete that fails -- a blank title refused by the
\* form, a response that is not ok (the 404 of an update of an entry deleted
\* since among them) or a fetch that rejects -- leaves the App's list and its
\* page map as they were.
C16_FailureLeavesList ==
  [][(\/ lastStep'.op = "validation failed"
      \/ \E response \in Taken :
           response.kind # "list" /\ ~isOk(response.status))
       => (entries' = entries /\ pageByLetter' = pageByLetter)]_vars

\* The App has handled the 404 of an update whose entry was deleted since,
\* and still lists the entry: the response of the delete is not handled yet.
C16_Witness ==
  /\ lastStep.op = "save not found"
  /\ store = <<>>
  /\ Len(entries) = 1
  /\ history.failed

\* The updates and deletes the App has sent and has not yet seen answered.
PendingMutations == {message \in inFlight : message.kind \in {"update", "delete"}}

\* C17: while an update or a delete of an identifier is pending in the App,
\* the App sends no second update or delete of that identifier: no two
\* pending mutations have the same identifier.
C17_OneMutationPerId ==
  \A first \in PendingMutations, second \in PendingMutations :
    first.id = second.id => first = second

\* Nothing is in flight and every effect has run.
Quiet == inFlight = {} /\ ~effectPending

\* C18 as stated: the list is requested again after each successful
\* mutation, so that once nothing is in flight no successful mutation is
\* left that no list request has followed.
C18_ListRequestedAfterMutation == Quiet => ~history.unfollowed

\* The list requests the step sends.
ListRequestsSent ==
  {message \in inFlight' : message.kind = "list" /\ message.stage = "request"}
    \ inFlight

\* C18, amended: the list is requested once, when the App is mounted, and
\* never again; a successful mutation is applied to the App's own list from
\* its response -- the created entry put first, the updated entry put in
\* the place of the entry of its identifier, the deleted entry taken out --
\* and no list request is sent.
C18_ListRequestedOnce ==
  [][/\ ListRequestsSent = {}
     /\ \A response \in Taken :
          (response.kind # "list" /\ isOk(response.status)) =>
            entries' =
              (IF response.kind = "create" THEN <<response.body>> \o entries
               ELSE IF response.kind = "update"
                 THEN [i \in DOMAIN entries |->
                         IF entries[i].id = response.id THEN response.body ELSE entries[i]]
               ELSE SelectSeq(entries, LAMBDA e : e.id # response.id))]_vars

\* A mutation has succeeded and been applied, the list shows the store's one
\* entry, and nothing is in flight: no list request has followed.
C18_Witness ==
  /\ Quiet
  /\ history.unfollowed
  /\ lastStep.op = "effect"
  /\ entries = store
  /\ Len(entries) = 1
  /\ entries[1].note = <<"n">>

\* C19: the App's list holds at most one entry of each identifier, whatever
\* the order in which the response of the list request and those of creates,
\* updates and deletes are handled.
C19_OneEntryPerId ==
  \A i \in DOMAIN entries, j \in DOMAIN entries :
    entries[i].id = entries[j].id => i = j

\* What the App shows of an entry and what the store holds of a row.
Shown(list) ==
  {[id |-> list[i].id, title |-> list[i].title, note |-> list[i].note] :
     i \in DOMAIN list}

\* C20: with one App and no request failed, once nothing is in flight the
\* entries of the App's list, with their titles and notes, are those of the
\* store, whatever the order in which requests were answered and responses
\* handled.
C20_ListEqualsStore ==
  (Quiet /\ ~history.failed) => Shown(entries) = Shown(store)

====
